---- MODULE Spec2Model ----
(***************************************************************************)
(* Model of gonka_notifier's monitor() loop (src/main.py).                 *)
(*                                                                         *)
(* Python values are tagged tuples, so that values of different Python     *)
(* types can be stored in one variable and compared:                       *)
(*   None -> <<"null">>, int n -> <<"int", n>>, str s -> <<"str", s>>,     *)
(*   dict d -> <<"obj", d>> with d a function over key strings,            *)
(*   list l -> <<"list", l>> with l a sequence.                            *)
(* A notification is a record holding the values formatted into its text.  *)
(***************************************************************************)
EXTENDS Integers, Sequences, FiniteSets, TLC

\* ------------------------------------------------------------------ bounds
MaxChecks == 2      \* longest checks list of one report
MaxMissed == 2      \* largest missed_requests count reported
MaxWeight == 2      \* largest confirmation weight reported
MaxEpoch == 2       \* largest epoch index reported
ParseRange == 9     \* int() is fed decimal strings of -ParseRange .. ParseRange
TotalRequests == 20   \* the total_requests value reported with a count

\* ------------------------------------------------------------ Python values
None == <<"null">>
PyInt(n) == <<"int", n>>
PyStr(s) == <<"str", s>>
PyDict(d) == <<"obj", d>>
PyList(l) == <<"list", l>>
EmptyDict == [k \in {} |-> None]

IsDict(v) == v[1] = "obj"
IsInt(v) == v[1] = "int"
IsStr(v) == v[1] = "str"
\* lists and dicts are not hashable: they raise TypeError as dict keys
Hashable(v) == v[1] \notin {"list", "obj"}

\* bool(v): None, 0, "", {} and [] are falsy
Truthy(v) ==
    /\ v # None
    /\ v # PyInt(0)
    /\ v # PyStr("")
    /\ ~(IsDict(v) /\ DOMAIN v[2] = {})
    /\ v # PyList(<<>>)

\* d.get(key, default) on the mapping of a dict
DictGet(d, key, default) == IF key \in DOMAIN d THEN d[key] ELSE default

\* _get(d, *keys, default): the value of the first key present
RECURSIVE _get(_, _, _)
_get(d, keys, default) ==
    IF keys = <<>> THEN default
    ELSE IF Head(keys) \in DOMAIN d THEN d[Head(keys)]
    ELSE _get(d, Tail(keys), default)

\* ------------------------------------------------------------- identifiers
\* ids beginning with "mlnode_", with what removeprefix("mlnode_") leaves
MlnodeIds == [mlnode_a |-> "a"]
StartsWithMlnode(cid) == IsStr(cid) /\ cid[2] \in DOMAIN MlnodeIds
RemovePrefixMlnode(cid) == PyStr(MlnodeIds[cid[2]])

\* ------------------------------------------------------------ notifications
\* f"[{cid}] {status}: {message}"
StatusAlert(cid, status, message) ==
    [kind |-> "status", cid |-> cid, status |-> status, message |-> message]
\* f"[{cid}] ML node problem on {host}/{node_id}: {message}"
MlnodeAlert(cid, host, node_id, message) ==
    [kind |-> "mlnode", cid |-> cid, host |-> host, node_id |-> node_id,
     message |-> message]
\* f"[missed_requests_threshold] Missed requests increased: {prev} -> {missed}
\*   (total={total}, missed%={missed_pct})"
MissedAlert(prev, missed, total, missed_pct) ==
    [kind |-> "missed_requests_threshold", prev |-> prev, missed |-> missed,
     total |-> total, missed_pct |-> missed_pct]
\* f"[script_error] {type(e).__name__}: {e}"
ScriptErrorAlert(e) == [kind |-> "script_error", type |-> e]
\* f"[confirmation_weight] Decreased: {prev} -> {cw} ({pct_change:+.1f}%)
\*   (weight={w}, total={total_w}, share={share:.1f}%)"
WeightAlert(prev, cw, pct_change, w, total_w, share) ==
    [kind |-> "confirmation_weight", prev |-> prev, cw |-> cw,
     pct_change |-> pct_change, w |-> w, total_w |-> total_w, share |-> share]

\* --------------------------------------------------- one iteration of the
\* for loop over checks (lines 98-144).  The outcome holds the two trackers
\* after the iteration, the notifications sent by it and the exception that
\* left it ("" when it completed).
Outcome(ps, pm, sent, e) ==
    [prev_statuses |-> ps, prev_missed_requests |-> pm, sent |-> sent, exc |-> e]

\* lines 109-123: the missed_requests_threshold branch
EvalMissed_UpdateOnAlert(ps, pm, details) ==
    IF ~IsDict(details) THEN Outcome(ps, pm, <<>>, "AttributeError")
    ELSE
    LET missed == DictGet(details[2], "missed_requests", None)
        total == DictGet(details[2], "total_requests", None)
        missed_pct == DictGet(details[2], "missed_percentage", None)
        alert == /\ IsInt(missed)
                 /\ pm # None
                 /\ missed[2] > pm[2]
    IN  Outcome(ps,
                IF IsInt(missed) /\ (alert \/ pm = None) THEN missed ELSE pm,
                IF alert THEN <<MissedAlert(pm, missed, total, missed_pct)>>
                ELSE <<>>,
                "")
EvalMissed(ps, pm, details) ==
    IF ~IsDict(details) THEN Outcome(ps, pm, <<>>, "AttributeError")
    ELSE
    LET missed == DictGet(details[2], "missed_requests", None)
        total == DictGet(details[2], "total_requests", None)
        missed_pct == DictGet(details[2], "missed_percentage", None)
        alert == /\ IsInt(missed)
                 /\ pm # None
                 /\ missed[2] > pm[2]
    IN  Outcome(ps,
                IF IsInt(missed) THEN missed ELSE pm,
                IF alert THEN <<MissedAlert(pm, missed, total, missed_pct)>>
                ELSE <<>>,
                "")

\* lines 127-144: every other check
EvalGeneric_RecordsNone(ps, pm, cid, status, message, details) ==
    LET prev_status == DictGet(ps, cid, None)
        notify == /\ status # PyStr("PASS")
                  /\ (prev_status = None \/ prev_status = PyStr("PASS"))
        mlnode == Truthy(cid) /\ StartsWithMlnode(cid)
        did == DictGet(details[2], "id", None)
        node_id == IF Truthy(did) THEN did ELSE RemovePrefixMlnode(cid)
        host == DictGet(details[2], "host", PyStr("unknown-host"))
        ps2 == IF cid # None
               THEN [k \in DOMAIN ps \cup {cid} |->
                        IF k = cid THEN status ELSE ps[k]]
               ELSE ps
    IN  IF status # PyStr("PASS") /\ ~Hashable(cid)
        THEN Outcome(ps, pm, <<>>, "TypeError")          \* line 128
        ELSE IF notify /\ Truthy(cid) /\ ~IsStr(cid)
        THEN Outcome(ps, pm, <<>>, "AttributeError")     \* line 132, startswith
        ELSE IF notify /\ mlnode /\ ~IsDict(details)
        THEN Outcome(ps, pm, <<>>, "AttributeError")     \* lines 133-134
        ELSE IF cid # None /\ status # None /\ ~Hashable(cid)
        THEN Outcome(ps, pm, <<>>, "TypeError")          \* line 144
        ELSE Outcome(ps2, pm,
                     IF ~notify THEN <<>>
                     ELSE IF mlnode
                     THEN <<MlnodeAlert(cid, host, node_id, message)>>
                     ELSE <<StatusAlert(cid, status, message)>>,
                     "")
EvalGeneric(ps, pm, cid, status, message, details) ==
    LET prev_status == DictGet(ps, cid, None)
        notify == /\ status # PyStr("PASS")
                  /\ (prev_status = None \/ prev_status = PyStr("PASS"))
        mlnode == Truthy(cid) /\ StartsWithMlnode(cid)
        did == DictGet(details[2], "id", None)
        node_id == IF Truthy(did) THEN did ELSE RemovePrefixMlnode(cid)
        host == DictGet(details[2], "host", PyStr("unknown-host"))
        ps2 == IF cid # None /\ status # None
               THEN [k \in DOMAIN ps \cup {cid} |->
                        IF k = cid THEN status ELSE ps[k]]
               ELSE ps
    IN  IF status # PyStr("PASS") /\ ~Hashable(cid)
        THEN Outcome(ps, pm, <<>>, "TypeError")          \* line 128
        ELSE IF notify /\ Truthy(cid) /\ ~IsStr(cid)
        THEN Outcome(ps, pm, <<>>, "AttributeError")     \* line 132, startswith
        ELSE IF notify /\ mlnode /\ ~IsDict(details)
        THEN Outcome(ps, pm, <<>>, "AttributeError")     \* lines 133-134
        ELSE IF cid # None /\ status # None /\ ~Hashable(cid)
        THEN Outcome(ps, pm, <<>>, "TypeError")          \* line 144
        ELSE Outcome(ps2, pm,
                     IF ~notify THEN <<>>
                     ELSE IF mlnode
                     THEN <<MlnodeAlert(cid, host, node_id, message)>>
                     ELSE <<StatusAlert(cid, status, message)>>,
                     "")

\* lines 99-144: the body of the loop for one entry of the checks list
EvalCheck_NoContinue(ps, pm, entry) ==
    IF ~IsDict(entry) THEN Outcome(ps, pm, <<>>, "AttributeError")
    ELSE
    LET cid == DictGet(entry[2], "id", None)
        status == DictGet(entry[2], "status", None)
        message == DictGet(entry[2], "message", PyStr(""))
        d0 == DictGet(entry[2], "details", PyDict(EmptyDict))
        details == IF Truthy(d0) THEN d0 ELSE PyDict(EmptyDict)
        m == EvalMissed(ps, pm, details)
        g == EvalGeneric(m.prev_statuses, m.prev_missed_requests, cid, status,
                         message, details)
    IN  IF cid = PyStr("consensus_key_match") THEN Outcome(ps, pm, <<>>, "")
        ELSE IF cid = PyStr("missed_requests_threshold")
        THEN IF m.exc # "" THEN m
             ELSE Outcome(g.prev_statuses, g.prev_missed_requests,
                          m.sent \o g.sent, g.exc)
        ELSE EvalGeneric(ps, pm, cid, status, message, details)
EvalCheck(ps, pm, entry) ==
    IF ~IsDict(entry) THEN Outcome(ps, pm, <<>>, "AttributeError")
    ELSE
    LET cid == DictGet(entry[2], "id", None)
        status == DictGet(entry[2], "status", None)
        message == DictGet(entry[2], "message", PyStr(""))
        d0 == DictGet(entry[2], "details", PyDict(EmptyDict))
        details == IF Truthy(d0) THEN d0 ELSE PyDict(EmptyDict)
    IN  IF cid = PyStr("consensus_key_match") THEN Outcome(ps, pm, <<>>, "")
        ELSE IF cid = PyStr("missed_requests_threshold")
        THEN EvalMissed(ps, pm, details)
        ELSE EvalGeneric(ps, pm, cid, status, message, details)

\* ------------------------------------------------------------------- int()
\* int(v) for an int or a decimal string; anything else raises
IntOk(v) ==
    \/ IsInt(v)
    \/ IsStr(v) /\ \E n \in -ParseRange..ParseRange : ToString(n) = v[2]
IntVal(v) ==
    IF IsInt(v) THEN v[2]
    ELSE CHOOSE n \in -ParseRange..ParseRange : ToString(n) = v[2]
IntExc(v) == IF IsStr(v) THEN "ValueError" ELSE "TypeError"

\* ------------------------------------------- fetch_confirmation_weight
\* the outcome of the call: an exception, or the returned value
Raised(e) == <<"raised", e>>
Returned(v) == <<"ret", v>>
NotRun == <<"notrun">>

\* lines 75-82: the first entry of weights whose address is the participant's
RECURSIVE FindParticipant(_, _, _, _)
FindParticipant(weights, address, total_weight, epoch_index) ==
    IF weights = <<>> THEN Returned(None)
    ELSE
    LET vw == Head(weights)[2]
        addr == _get(vw, <<"member_address", "memberAddress">>, PyStr(""))
        cwv == _get(vw, <<"confirmation_weight", "confirmationWeight">>, PyInt(0))
        wv == _get(vw, <<"weight">>, PyInt(0))
    IN  IF addr = address
        THEN IF ~IntOk(cwv) THEN Raised(IntExc(cwv))
             ELSE IF ~IntOk(wv) THEN Raised(IntExc(wv))
             ELSE Returned(<<IntVal(cwv), IntVal(wv), total_weight, epoch_index>>)
        ELSE FindParticipant(Tail(weights), address, total_weight, epoch_index)

\* lines 68-82: from the decoded response to the returned tuple
fetch_confirmation_weight(data, address) ==
    LET epoch_data == _get(data[2], <<"epoch_group_data", "epochGroupData">>, data)
        weights == _get(epoch_data[2], <<"validation_weights", "validationWeights">>,
                        PyList(<<>>))
        tw == _get(epoch_data[2], <<"total_weight", "totalWeight">>, PyInt(0))
        ei == _get(epoch_data[2], <<"epoch_index", "epochIndex">>, PyInt(0))
    IN  IF ~IntOk(tw) THEN Raised(IntExc(tw))
        ELSE IF ~IntOk(ei) THEN Raised(IntExc(ei))
        ELSE FindParticipant(weights[2], address, IntVal(tw), IntVal(ei))

\* -------------------------------------------------- float arithmetic
\* Python floats are IEEE 754 doubles: Precision bits of mantissa, every
\* operation rounded to the nearest, ties to even.  Mantissas exceed the
\* integers of the checker, so naturals are kept as sequences of limbs of
\* LimbBits bits, least significant first.
Precision == 53
Pow2Table ==
    <<1, 2, 4, 8, 16, 32, 64, 128, 256, 512, 1024, 2048, 4096, 8192, 16384, 32768>>
Pow2(k) == Pow2Table[k + 1]
LimbBits == Len(Pow2Table) - 1
Base == Pow2(LimbBits)
Abs(n) == IF n < 0 THEN -n ELSE n

RECURSIVE BigOf(_)
BigOf(n) == IF n = 0 THEN <<>> ELSE <<n % Base>> \o BigOf(n \div Base)
RECURSIVE IntOf(_)
IntOf(x) == IF x = <<>> THEN 0 ELSE Head(x) + Base * IntOf(Tail(x))
RECURSIVE Strip(_)
Strip(x) ==
    IF x # <<>> /\ x[Len(x)] = 0 THEN Strip(SubSeq(x, 1, Len(x) - 1)) ELSE x
\* x * m + carry, for m and carry below Base
RECURSIVE BigMulSmall(_, _, _)
BigMulSmall(x, m, carry) ==
    IF x = <<>> THEN BigOf(carry)
    ELSE LET p == Head(x) * m + carry
         IN  <<p % Base>> \o BigMulSmall(Tail(x), m, p \div Base)
BitLenSmall(n) ==
    CHOOSE k \in 0..LimbBits :
        IF k = 0 THEN n = 0 ELSE Pow2(k - 1) <= n /\ n < Pow2(k)
BitLen(x) ==
    IF x = <<>> THEN 0 ELSE LimbBits * (Len(x) - 1) + BitLenSmall(x[Len(x)])
\* bit i of x, bit 0 the least significant
Bit(x, i) ==
    IF i \div LimbBits + 1 > Len(x) THEN 0
    ELSE (x[i \div LimbBits + 1] \div Pow2(i % LimbBits)) % 2
\* whether a bit of x below bit i is set
AnyBelow(x, i) ==
    \/ \E l \in 1..Len(x) : l <= i \div LimbBits /\ x[l] # 0
    \/ /\ i \div LimbBits + 1 <= Len(x)
       /\ x[i \div LimbBits + 1] % Pow2(i % LimbBits) # 0
ShiftRight(x, s) ==
    LET bs == s % LimbBits
        y == SubSeq(x, s \div LimbBits + 1, Len(x))
    IN  Strip([i \in 1..Len(y) |->
                y[i] \div Pow2(bs)
                    + IF i < Len(y) THEN (y[i + 1] % Pow2(bs)) * Pow2(LimbBits - bs)
                      ELSE 0])
ShiftLeft(x, s) ==
    [i \in 1..(s \div LimbBits) |-> 0] \o BigMulSmall(x, Pow2(s % LimbBits), 0)

\* a float is sign * mantissa * 2^exponent, the mantissa of at most Precision
\* bits; the empty mantissa is zero
Float(sign, m, e) == <<sign, m, e>>
\* sign * n * 2^e rounded to a float
RoundBig(sign, n, e) ==
    IF BitLen(n) <= Precision THEN Float(sign, n, e)
    ELSE
    LET drop == BitLen(n) - Precision
        kept == ShiftRight(n, drop)
        up == /\ Bit(n, drop - 1) = 1
              /\ (AnyBelow(n, drop - 1) \/ Bit(kept, 0) = 1)
    IN  Float(sign, IF up THEN BigMulSmall(kept, 1, 1) ELSE kept, e + drop)

\* long division: one more bit of the quotient acc, from the remainder rem
DivStep(st, d) ==
    LET bit == IF 2 * st[2] >= d THEN 1 ELSE 0
    IN  <<2 * st[1] + bit, 2 * st[2] - bit * d>>
DivStep3(st, d) == DivStep(DivStep(DivStep(st, d), d), d)
DivLimb(st, d) == DivStep3(DivStep3(DivStep3(DivStep3(DivStep3(st, d), d), d), d), d)
\* count limbs of the fraction rem / d, with the remainder left
RECURSIVE FracLimbs(_, _, _)
FracLimbs(rem, d, count) ==
    IF rem = 0 \/ count = 0 THEN <<[i \in 1..count |-> 0], rem>>
    ELSE LET st == DivLimb(<<0, rem>>, d)
             rest == FracLimbs(st[2], d, count - 1)
         IN  <<rest[1] \o <<st[1]>>, rest[2]>>
\* a / b for ints a and b # 0: the quotient correctly rounded
FDivInt(a, b) ==
    LET sign == IF (a < 0) # (b < 0) THEN -1 ELSE 1
        d == Abs(b)
        up == BitLen(BigOf(d)) - BitLen(BigOf(Abs(a)))
        j == IF up > 0 THEN up ELSE 0
        n == IntOf(ShiftLeft(BigOf(Abs(a)), j))
        fr == FracLimbs(n % d, d, 4)
        q == Strip(fr[1] \o BigOf(n \div d))
    IN  IF a = 0 THEN Float(sign, <<>>, 0)
        ELSE RoundBig(sign, BigMulSmall(q, 2, IF fr[2] # 0 THEN 1 ELSE 0),
                      -(4 * LimbBits) - 1 - j)
\* x * n for a float x and an int n, |n| < Base
FMulInt(x, n) ==
    IF x[2] = <<>> \/ n = 0 THEN Float(IF n < 0 THEN -x[1] ELSE x[1], <<>>, 0)
    ELSE RoundBig(IF n < 0 THEN -x[1] ELSE x[1], BigMulSmall(x[2], Abs(n), 0), x[3])
\* |x| * 10 rounded to the nearest integer, ties to even
Tenths(x) ==
    LET n == BigMulSmall(x[2], 10, 0)
        s == -x[3]
    IN  IF x[2] = <<>> THEN 0
        ELSE IF s <= 0 THEN IntOf(ShiftLeft(n, -s))
        ELSE IntOf(ShiftRight(n, s))
                + IF /\ Bit(n, s - 1) = 1
                     /\ (AnyBelow(n, s - 1) \/ Bit(n, s) = 1)
                  THEN 1 ELSE 0
\* f"{x:.1f}", and f"{x:+.1f}" when plus
Format1f(x, plus) ==
    (IF x[1] < 0 THEN "-" ELSE IF plus THEN "+" ELSE "")
        \o ToString(Tenths(x) \div 10) \o "." \o ToString(Tenths(x) % 10)

\* ------------------------------------------------- weight evaluation
\* lines 163-166: pct_change, a float
PctChange_Minus100(cw, prev) ==
    IF prev > 0 THEN FMulInt(FDivInt(cw - prev, prev), 100)
    ELSE FMulInt(FDivInt(-1, 1), 100)
PctChange(cw, prev) ==
    IF prev > 0 THEN FMulInt(FDivInt(cw - prev, prev), 100)
    ELSE Float(1, <<>>, 0)
\* line 167: share, a float
Share(cw, total_w) ==
    IF total_w > 0 THEN FMulInt(FDivInt(cw, total_w), 100)
    ELSE Float(1, <<>>, 0)

\* lines 170-171: the two floats as the text of the alert prints them.  The
\* texts for the weights the modelled responses carry are computed once.
WeightRange == (-1)..MaxWeight
PctTexts ==
    {<<x, Format1f(PctChange(x[1], x[2]), TRUE)>> : x \in WeightRange \X WeightRange}
ShareTexts ==
    {<<x, Format1f(Share(x[1], x[2]), FALSE)>> : x \in WeightRange \X WeightRange}
PctText(cw, prev) ==
    IF <<cw, prev>> \in WeightRange \X WeightRange
    THEN (CHOOSE t \in PctTexts : t[1] = <<cw, prev>>)[2]
    ELSE Format1f(PctChange(cw, prev), TRUE)
ShareText(cw, total_w) ==
    IF <<cw, total_w>> \in WeightRange \X WeightRange
    THEN (CHOOSE t \in ShareTexts : t[1] = <<cw, total_w>>)[2]
    ELSE Format1f(Share(cw, total_w), FALSE)

\* lines 158-159: the stored weight the observation is compared with
Baseline_NoReset(pcw, pe, epoch_idx) == pcw
Baseline(pcw, pe, epoch_idx) ==
    IF pe # None /\ PyInt(epoch_idx) # pe THEN None ELSE pcw

\* line 162: whether the observation is a decrease
Decreased_OrEqual(base, cw) == base # None /\ cw <= base[2]
Decreased(base, cw) == base # None /\ cw < base[2]

\* lines 154-175: the stored weight and epoch after the sub-check and the
\* notifications it sent, for the value result returned by the fetch
EvalWeight_EpochNotStored(pcw, pe, result) ==
    IF result = None
    THEN [prev_confirmation_weight |-> pcw, prev_cw_epoch |-> pe, sent |-> <<>>]
    ELSE
    LET cw == result[1]
        base == Baseline(pcw, pe, result[4])
    IN  [prev_confirmation_weight |-> PyInt(cw),
         prev_cw_epoch |-> pe,
         sent |-> IF Decreased(base, cw)
                  THEN <<WeightAlert(base[2], cw, PctText(cw, base[2]), result[2],
                                     result[3], ShareText(cw, result[3]))>>
                  ELSE <<>>]
EvalWeight_ClearsOnAbsent(pcw, pe, result) ==
    IF result = None
    THEN [prev_confirmation_weight |-> None, prev_cw_epoch |-> None, sent |-> <<>>]
    ELSE
    LET cw == result[1]
        base == Baseline(pcw, pe, result[4])
    IN  [prev_confirmation_weight |-> PyInt(cw),
         prev_cw_epoch |-> PyInt(result[4]),
         sent |-> IF Decreased(base, cw)
                  THEN <<WeightAlert(base[2], cw, PctText(cw, base[2]), result[2],
                                     result[3], ShareText(cw, result[3]))>>
                  ELSE <<>>]
EvalWeight(pcw, pe, result) ==
    IF result = None
    THEN [prev_confirmation_weight |-> pcw, prev_cw_epoch |-> pe, sent |-> <<>>]
    ELSE
    LET cw == result[1]
        w == result[2]
        total_w == result[3]
        epoch_idx == result[4]
        base == Baseline(pcw, pe, epoch_idx)
    IN  [prev_confirmation_weight |-> PyInt(cw),
         prev_cw_epoch |-> PyInt(epoch_idx),
         sent |-> IF Decreased(base, cw)
                  THEN <<WeightAlert(base[2], cw, PctText(cw, base[2]), w,
                                     total_w, ShareText(cw, total_w))>>
                  ELSE <<>>]

\* ------------------------------------------------------------------- inputs
\* entries of a report's checks list
GenericIds == {"x", "mlnode_a", "validator_in_set", "consensus_key_match"}
Statuses(i) == IF i = "x" THEN {"PASS", "FAIL", "WARN"} ELSE {"PASS", "FAIL"}
GenericChecks ==
    UNION {
        {PyDict([id |-> PyStr(i), status |-> PyStr(s), message |-> PyStr("bad")]) :
            s \in Statuses(i)} :
        i \in GenericIds}
NoStatusChecks == {PyDict([id |-> PyStr("x"), message |-> PyStr("bad")])}
NoIdChecks == {PyDict([status |-> PyStr("FAIL"), message |-> PyStr("bad")])}
MissedDetails ==
    {PyDict([missed_requests |-> PyInt(n), total_requests |-> PyInt(TotalRequests)]) :
        n \in 0..MaxMissed}
    \cup {PyDict([missedRequests |-> PyInt(n), totalRequests |-> PyInt(TotalRequests)]) :
        n \in 0..MaxMissed}
    \cup {PyDict([missed_requests |-> PyStr("1")]), None, PyStr("oops")}
MissedCheck(s, d) ==
    PyDict([id |-> PyStr("missed_requests_threshold"), status |-> PyStr(s),
            message |-> PyStr("bad"), details |-> d])
MissedChecks ==
    {MissedCheck("FAIL", d) : d \in MissedDetails}
    \cup {MissedCheck("PASS", PyDict([missed_requests |-> PyInt(MaxMissed),
                                      total_requests |-> PyInt(TotalRequests)]))}
MalformedChecks == {PyStr("oops")}
\* entries whose id is not a string
OddIdChecks ==
    {PyDict([id |-> PyInt(5), status |-> PyStr("FAIL"), message |-> PyStr("bad")]),
     PyDict([id |-> PyList(<<PyInt(1)>>), status |-> PyStr("PASS"),
             message |-> PyStr("bad")])}
AllCheckEntries ==
    GenericChecks \cup NoStatusChecks \cup NoIdChecks \cup MissedChecks
        \cup MalformedChecks \cup OddIdChecks
\* the entries reports carry while the weight sub-check is enabled: the two
\* sub-checks share no variable, so the reports are kept short of variety
\* there and the weight responses carry the variety
FewCheckEntries ==
    {PyDict([id |-> PyStr("x"), status |-> PyStr(s), message |-> PyStr("bad")]) :
        s \in {"PASS", "FAIL"}}
    \cup {MissedCheck("FAIL", PyDict([missed_requests |-> PyInt(1),
                                      total_requests |-> PyInt(TotalRequests)]))}
    \cup MalformedChecks
CheckEntries(address) ==
    IF Truthy(address) THEN FewCheckEntries ELSE AllCheckEntries

\* responses of the chain API
Me == "gonka1me"
Other == "gonka1other"
WeightEntry(style, addr, cw) ==
    IF style = "camel"
    THEN PyDict([memberAddress |-> PyStr(addr), confirmationWeight |-> cw,
                 weight |-> cw])
    ELSE PyDict([member_address |-> PyStr(addr), confirmation_weight |-> cw,
                 weight |-> cw])
EpochData(style, ws, tw, ei) ==
    IF style = "camel"
    THEN PyDict([validationWeights |-> PyList(ws), totalWeight |-> tw,
                 epochIndex |-> ei])
    ELSE PyDict([validation_weights |-> PyList(ws), total_weight |-> tw,
                 epoch_index |-> ei])
WeightResponse(style, ws, tw, ei) ==
    IF style = "camel" THEN PyDict([epochGroupData |-> EpochData(style, ws, tw, ei)])
    ELSE IF style = "snake"
    THEN PyDict([epoch_group_data |-> EpochData(style, ws, tw, ei)])
    ELSE EpochData(style, ws, tw, ei)
\* the chain API prints numbers as strings; the flat style carries ints
Num(style, n) == IF style = "flat" THEN PyInt(n) ELSE PyStr(ToString(n))
WeightLists(style) ==
    {<<>>, <<WeightEntry(style, Other, Num(style, 1))>>}
    \cup {<<WeightEntry(style, Me, Num(style, cw))>> : cw \in (-1)..MaxWeight}
    \cup {<<WeightEntry(style, Other, Num(style, 1)),
            WeightEntry(style, Me, Num(style, cw))>> : cw \in 0..MaxWeight}
    \cup {<<WeightEntry(style, Me, PyStr("abc"))>>}
WeightResponses ==
    UNION {
        {WeightResponse(style, ws, Num(style, tw), Num(style, ei)) :
            ws \in WeightLists(style), tw \in {0, MaxWeight}, ei \in 1..MaxEpoch}
        \cup {WeightResponse(style, <<>>, Num(style, 0), None)} :
        style \in {"snake", "camel", "flat"}}

\* the participant addresses a run may be configured with, and for each the
\* outcomes fetch_confirmation_weight has: the request fails, or one of the
\* responses is decoded
Addresses == {PyStr(Me)}
\* what a decoded response holds: whether an entry of its weight table carries
\* the address, and its epoch index as transmitted
TableOf(data, address) ==
    LET epoch_data == _get(data[2], <<"epoch_group_data", "epochGroupData">>, data)
        weights == _get(epoch_data[2], <<"validation_weights", "validationWeights">>,
                        PyList(<<>>))[2]
    IN  <<\E i \in 1..Len(weights) :
              _get(weights[i][2], <<"member_address", "memberAddress">>,
                   PyStr("")) = address,
          _get(epoch_data[2], <<"epoch_index", "epochIndex">>, PyInt(0))>>
NoTable == <<FALSE, None>>
\* pairs of the outcome of the call and of what the response held
WeightOutcomes ==
    [a \in Addresses |->
        {<<Raised("ConnectError"), NoTable>>}
            \cup {<<fetch_confirmation_weight(d, a), TableOf(d, a)>> :
                    d \in WeightResponses}]

\* ------------------------------------------------------------ send_telegram
\* lines 36-42: what a call raises to its caller, for a delivery that
\* succeeded (ok) or failed; the failure is logged and swallowed
send_telegram(ok) == ""

\* what the for loop reads from an entry (lines 99-100)
EntryId(entry) == IF IsDict(entry) THEN DictGet(entry[2], "id", None) ELSE None
EntryStatus(entry) == IF IsDict(entry) THEN DictGet(entry[2], "status", None) ELSE None

\* -------------------------------------------------------------------- state
VARIABLES
    participant,                \* PARTICIPANT_ADDRESS (line 17)
    prev_statuses,              \* line 86
    prev_missed_requests,       \* line 87
    prev_confirmation_weight,   \* line 88
    prev_cw_epoch,              \* line 89
    pc,                         \* where the loop body of monitor() stands
    remaining,                  \* entries of checks the for loop has not taken yet
    check,                      \* the entry the for loop took last
    exc,                        \* the exception the try of line 94 has raised, until handled
    result,                     \* outcome of fetch_confirmation_weight this cycle
    sent,                       \* texts passed to send_telegram by the last step
    script_errors,              \* script_error notifications of this cycle
    last_sent_missed,           \* count reported by the last missed-requests alert
    stored_before,              \* the stored weight and epoch as the last weight
                                \* sub-check found them
    table,                      \* what the weight response of this cycle held
    delivery,                   \* the request of send_telegram for the texts of
                                \* sent: "none" when there is no text, "pending"
                                \* while it is awaited, then "ok" or "failed",
                                \* or "cancelled" when monitor() is ended
                                \* during the request
    undelivered,                \* whether the alert (lines 116, 135, 140) of
                                \* the entry check got a failed delivery, in
                                \* this cycle or in an earlier one, no other
                                \* entry having been evaluated since
    weight_undelivered          \* the alert of line 168 for the stored pair
                                \* got a failed delivery, and no other pair
                                \* has been stored since

vars == <<participant, prev_statuses, prev_missed_requests,
          prev_confirmation_weight, prev_cw_epoch, pc, remaining, check, exc,
          result, sent, script_errors, last_sent_missed, stored_before,
          table, delivery, undelivered, weight_undelivered>>

weightVars == <<prev_confirmation_weight, prev_cw_epoch>>
checkVars == <<prev_statuses, prev_missed_requests>>
deliveryLog == <<undelivered, weight_undelivered>>

Init ==
    /\ participant \in {None} \cup Addresses
    /\ prev_statuses = EmptyDict
    /\ prev_missed_requests = None
    /\ prev_confirmation_weight = None
    /\ prev_cw_epoch = None
    /\ pc = "fetch"
    /\ remaining = 0
    /\ check = None
    /\ exc = ""
    /\ result = NotRun
    /\ sent = <<>>
    /\ script_errors = 0
    /\ last_sent_missed = None
    /\ stored_before = <<None, None>>
    /\ table = NoTable
    /\ delivery = "none"
    /\ undelivered = "no"
    /\ weight_undelivered = FALSE

\* line 95 raises: the request or the decoding of its body failed
FetchReportFails_Retries ==
    /\ pc = "fetch"
    /\ pc' = "fetch"
    /\ exc' = "ConnectError"
    /\ sent' = <<>>
    /\ delivery' = "none"
    /\ UNCHANGED <<deliveryLog, participant, checkVars, weightVars, remaining, check, result,
                   script_errors, last_sent_missed, stored_before, table>>
FetchReportFails ==
    /\ pc = "fetch"
    /\ pc' = "except"
    /\ exc' = "ConnectError"
    /\ sent' = <<>>
    /\ delivery' = "none"
    /\ UNCHANGED <<deliveryLog, participant, checkVars, weightVars, remaining, check, result,
                   script_errors, last_sent_missed, stored_before, table>>

\* lines 95-96: a report arrives whose checks list has n entries
FetchReport ==
    /\ pc = "fetch"
    /\ \E n \in 0..MaxChecks :
        /\ remaining' = n
        /\ pc' = IF n = 0 THEN "weight" ELSE "loop"
    /\ sent' = <<>>
    /\ delivery' = "none"
    /\ UNCHANGED <<deliveryLog, participant, checkVars, weightVars, check, exc, result,
                   script_errors, last_sent_missed, stored_before, table>>

\* lines 98-144: the for loop takes the next entry and evaluates it, to the
\* end of the iteration or to the await of the send_telegram it calls; the
\* trackers are written after that await
LoopStep ==
    /\ pc = "loop"
    /\ remaining > 0
    /\ \E entry \in CheckEntries(participant) :
        LET o == EvalCheck(prev_statuses, prev_missed_requests, entry)
            awaits == o.sent # <<>>
        IN  /\ check' = entry
            /\ sent' = o.sent
            /\ delivery' = IF awaits THEN "pending" ELSE "none"
            /\ prev_statuses' = IF awaits THEN prev_statuses ELSE o.prev_statuses
            /\ prev_missed_requests' =
                 IF awaits THEN prev_missed_requests ELSE o.prev_missed_requests
            /\ exc' = o.exc
            /\ remaining' = remaining - 1
            /\ pc' = IF awaits THEN "send_check"
                     ELSE IF o.exc # "" THEN "except"
                     ELSE IF remaining = 1 THEN "weight" ELSE "loop"
            /\ last_sent_missed' =
                 IF o.sent # <<>> /\ o.sent[1].kind = "missed_requests_threshold"
                 THEN o.sent[1].missed ELSE last_sent_missed
            /\ undelivered' = IF ~awaits /\ entry = check THEN undelivered ELSE "no"
    /\ UNCHANGED <<participant, weightVars, result, script_errors, stored_before,
                   table, weight_undelivered>>

\* lines 116, 135, 140 return, and the rest of the iteration runs: lines
\* 121-123 or 143-144
SendCheckDone ==
    /\ pc = "send_check"
    /\ \E dl \in {"ok", "failed"} :
        LET o == EvalCheck(prev_statuses, prev_missed_requests, check)
            e == send_telegram(dl = "ok")
        IN  /\ delivery' = dl
            /\ prev_statuses' = IF e # "" THEN prev_statuses ELSE o.prev_statuses
            /\ prev_missed_requests' =
                 IF e # "" THEN prev_missed_requests ELSE o.prev_missed_requests
            /\ exc' = e
            /\ pc' = IF e # "" THEN "except"
                     ELSE IF remaining = 0 THEN "weight" ELSE "loop"
            /\ undelivered' = IF dl = "failed" THEN "this_cycle" ELSE "no"
    /\ UNCHANGED <<participant, weightVars, remaining, check, result, sent,
                   script_errors, last_sent_missed, stored_before, table,
                   weight_undelivered>>

\* lines 146-148: the handler of the try block, to the await of the
\* send_telegram it calls
ScriptError_ResetsState ==
    /\ pc = "except"
    /\ sent' = <<ScriptErrorAlert(exc)>>
    /\ delivery' = "pending"
    /\ script_errors' = script_errors + 1
    /\ pc' = "send_error"
    /\ exc' = ""
    /\ remaining' = 0
    /\ prev_statuses' = EmptyDict
    /\ UNCHANGED <<deliveryLog, participant, prev_missed_requests, weightVars,
                   check, result, last_sent_missed, stored_before, table>>
ScriptError ==
    /\ pc = "except"
    /\ sent' = <<ScriptErrorAlert(exc)>>
    /\ delivery' = "pending"
    /\ script_errors' = script_errors + 1
    /\ pc' = "send_error"
    /\ exc' = ""
    /\ remaining' = 0
    /\ UNCHANGED <<deliveryLog, participant, checkVars, weightVars, check, result,
                   last_sent_missed, stored_before, table>>

\* line 148 returns, and line 151 is next; an exception of send_telegram
\* would leave monitor()
SendErrorDone_SkipsWeight ==
    /\ pc = "send_error"
    /\ delivery' \in {"ok", "failed"}
    /\ pc' = IF send_telegram(delivery' = "ok") # "" THEN "crashed" ELSE "sleep"
    /\ UNCHANGED <<deliveryLog, participant, checkVars, weightVars, remaining,
                   check, exc, result, sent, script_errors, last_sent_missed,
                   stored_before, table>>
SendErrorDone ==
    /\ pc = "send_error"
    /\ delivery' \in {"ok", "failed"}
    /\ pc' = IF send_telegram(delivery' = "ok") # "" THEN "crashed" ELSE "weight"
    /\ UNCHANGED <<deliveryLog, participant, checkVars, weightVars, remaining,
                   check, exc, result, sent, script_errors, last_sent_missed,
                   stored_before, table>>

\* line 151 with no participant configured
SkipWeight ==
    /\ pc = "weight"
    /\ ~Truthy(participant)
    /\ pc' = "sleep"
    /\ sent' = <<>>
    /\ delivery' = "none"
    /\ UNCHANGED <<deliveryLog, participant, checkVars, weightVars, remaining, check, exc,
                   result, script_errors, last_sent_missed, stored_before, table>>

\* lines 151-177: the weight sub-check, to its end or to the await of the
\* send_telegram it calls; the stored pair is written after that await
CheckWeight_AlertsOnError ==
    /\ pc = "weight"
    /\ Truthy(participant)
    /\ \E c \in WeightOutcomes[participant] :
        LET r == c[1]
        IN  /\ result' = r
            /\ table' = c[2]
            /\ IF r[1] = "raised"
               THEN /\ sent' = <<ScriptErrorAlert(r[2])>>
                    /\ delivery' = "ok"
                    /\ pc' = "sleep"
                    /\ UNCHANGED <<weightVars, weight_undelivered>>
               ELSE LET o == EvalWeight(prev_confirmation_weight, prev_cw_epoch, r[2])
                        awaits == o.sent # <<>>
                    IN  /\ sent' = o.sent
                        /\ delivery' = IF awaits THEN "pending" ELSE "none"
                        /\ pc' = IF awaits THEN "send_weight" ELSE "sleep"
                        /\ prev_confirmation_weight' =
                             IF awaits THEN prev_confirmation_weight
                             ELSE o.prev_confirmation_weight
                        /\ prev_cw_epoch' =
                             IF awaits THEN prev_cw_epoch ELSE o.prev_cw_epoch
                        /\ weight_undelivered' =
                             (/\ weight_undelivered
                              /\ \/ awaits
                                 \/ <<o.prev_confirmation_weight, o.prev_cw_epoch>>
                                        = <<prev_confirmation_weight, prev_cw_epoch>>)
    /\ stored_before' = <<prev_confirmation_weight, prev_cw_epoch>>
    /\ UNCHANGED <<participant, checkVars, remaining, check, exc, script_errors,
                   last_sent_missed, undelivered>>
CheckWeight ==
    /\ pc = "weight"
    /\ Truthy(participant)
    /\ \E c \in WeightOutcomes[participant] :
        LET r == c[1]
        IN  /\ result' = r
            /\ table' = c[2]
            /\ IF r[1] = "raised"
               THEN /\ sent' = <<>>
                    /\ delivery' = "none"
                    /\ pc' = "sleep"
                    /\ UNCHANGED <<weightVars, weight_undelivered>>
               ELSE LET o == EvalWeight(prev_confirmation_weight, prev_cw_epoch, r[2])
                        awaits == o.sent # <<>>
                    IN  /\ sent' = o.sent
                        /\ delivery' = IF awaits THEN "pending" ELSE "none"
                        /\ pc' = IF awaits THEN "send_weight" ELSE "sleep"
                        /\ prev_confirmation_weight' =
                             IF awaits THEN prev_confirmation_weight
                             ELSE o.prev_confirmation_weight
                        /\ prev_cw_epoch' =
                             IF awaits THEN prev_cw_epoch ELSE o.prev_cw_epoch
                        /\ weight_undelivered' =
                             (/\ weight_undelivered
                              /\ \/ awaits
                                 \/ <<o.prev_confirmation_weight, o.prev_cw_epoch>>
                                        = <<prev_confirmation_weight, prev_cw_epoch>>)
    /\ stored_before' = <<prev_confirmation_weight, prev_cw_epoch>>
    /\ UNCHANGED <<participant, checkVars, remaining, check, exc, script_errors,
                   last_sent_missed, undelivered>>

\* line 168 returns, and lines 174-175 run; an exception of send_telegram
\* would be caught at line 176, before them
SendWeightDone ==
    /\ pc = "send_weight"
    /\ \E dl \in {"ok", "failed"} :
        LET o == EvalWeight(prev_confirmation_weight, prev_cw_epoch, result[2])
            e == send_telegram(dl = "ok")
        IN  /\ delivery' = dl
            /\ prev_confirmation_weight' =
                 IF e # "" THEN prev_confirmation_weight
                 ELSE o.prev_confirmation_weight
            /\ prev_cw_epoch' = IF e # "" THEN prev_cw_epoch ELSE o.prev_cw_epoch
            /\ weight_undelivered' = (dl = "failed")
    /\ pc' = "sleep"
    /\ UNCHANGED <<participant, checkVars, remaining, check, exc, result, sent,
                   script_errors, last_sent_missed, stored_before, table,
                   undelivered>>

\* line 180, and back to line 93
Sleep ==
    /\ pc = "sleep"
    /\ pc' = "fetch"
    /\ result' = NotRun
    /\ sent' = <<>>
    /\ script_errors' = 0
    /\ table' = NoTable
    /\ delivery' = "none"
    /\ undelivered' = IF undelivered = "this_cycle" THEN "earlier_cycle"
                      ELSE undelivered
    /\ UNCHANGED <<weight_undelivered, participant, checkVars, weightVars,
                   remaining, check, exc, last_sent_missed, stored_before>>

\* lines 154-175 without the await of line 168: the values the stored pair
\* passes through, one assignment at a time, before line 175 has run (the
\* reset of line 159, then line 174 when no alert is due first)
WeightWrites(pcw, pe, data) ==
    IF data = None THEN {<<pcw, pe>>}
    ELSE LET cw == data[1]
             epoch_idx == data[4]
             base == Baseline(pcw, pe, epoch_idx)
         IN  {<<pcw, pe>>, <<base, pe>>}
                 \cup (IF Decreased(base, cw) THEN {} ELSE {<<PyInt(cw), pe>>})

\* monitor() is ended from outside (main(), lines 183-187): the task is
\* cancelled at the await it stands at, or a KeyboardInterrupt is raised at
\* the line that runs, between two awaits as well.  Neither line 40 nor
\* lines 146 and 176 catch either, so monitor() ends there with what the
\* lines before have written.  In the for loop line 98 may have bound the
\* next entry, nothing of it being written yet; at a send_telegram the text
\* is out, the request is unanswered or answered, and what follows the call
\* has not run; inside the weight sub-check the stored pair may be half
\* written.
Cancel ==
    /\ pc \notin {"cancelled", "crashed"}
    /\ pc' = "cancelled"
    /\ check' \in IF pc = "loop" THEN {check} \cup CheckEntries(participant)
                  ELSE {check}
    /\ sent' = IF pc \in {"send_check", "send_error", "send_weight"} THEN sent
               ELSE <<>>
    /\ delivery' \in IF pc \in {"send_check", "send_error", "send_weight"}
                     THEN {"cancelled", "ok", "failed"} ELSE {"none"}
    /\ \E w \in IF pc = "weight" /\ Truthy(participant)
                THEN UNION {IF c[1][1] = "ret"
                            THEN WeightWrites(prev_confirmation_weight, prev_cw_epoch, c[1][2])
                            ELSE {<<prev_confirmation_weight, prev_cw_epoch>>}
                            : c \in WeightOutcomes[participant]}
                ELSE IF pc = "send_weight"
                THEN {<<prev_confirmation_weight, prev_cw_epoch>>,
                      <<PyInt(result[2][1]), prev_cw_epoch>>}
                ELSE {<<prev_confirmation_weight, prev_cw_epoch>>} :
        /\ prev_confirmation_weight' = w[1]
        /\ prev_cw_epoch' = w[2]
    /\ exc' = ""
    /\ remaining' = 0
    /\ result' = NotRun
    /\ table' = NoTable
    /\ undelivered' = "no"
    /\ weight_undelivered' = FALSE
    /\ UNCHANGED <<participant, checkVars, script_errors, last_sent_missed,
                   stored_before>>

Next ==
    \/ FetchReportFails
    \/ FetchReport
    \/ LoopStep
    \/ SendCheckDone
    \/ ScriptError
    \/ SendErrorDone
    \/ SkipWeight
    \/ CheckWeight
    \/ SendWeightDone
    \/ Sleep
    \/ Cancel

Spec == Init /\ [][Next]_vars

TypeOK ==
    /\ pc \in {"fetch", "loop", "send_check", "except", "send_error", "weight",
              "send_weight",
              "sleep", "crashed", "cancelled"}
    /\ delivery \in {"none", "pending", "ok", "failed", "cancelled"}
    /\ remaining \in 0..MaxChecks
    /\ script_errors \in 0..1
    /\ undelivered \in {"no", "this_cycle", "earlier_cycle"}
    /\ weight_undelivered \in BOOLEAN

\* ------------------------------------------------------------------ claims
\* the step that ends the iteration of the for loop over the entry check':
\* the trackers are those before the iteration, their primed values those
\* after it, and sent' holds what the iteration passed to send_telegram
EntryEvaluated ==
    \/ pc = "loop" /\ pc' \notin {"send_check", "cancelled"}
    \/ pc = "send_check" /\ pc' # "cancelled"

\* C1: for an id that is neither on the ignore list nor
\* missed_requests_threshold, the step that evaluates a check sends an alert
\* exactly when the check's status is not PASS and the status recorded for the
\* id is PASS or absent, and a non-PASS observation that directly follows a
\* non-PASS observation of the same id sends nothing.
C1_EdgeTriggered ==
    [][(pc = "loop" /\ pc' # "cancelled" /\ IsStr(EntryId(check'))
            /\ EntryId(check')[2] \notin {"consensus_key_match", "validator_in_set",
                                          "missed_requests_threshold"})
        => /\ sent' # <<>>
                <=> /\ EntryStatus(check') # PyStr("PASS")
                    /\ DictGet(prev_statuses, EntryId(check'), None)
                            \in {None, PyStr("PASS")}
           /\ (EntryId(check) = EntryId(check')
                    /\ EntryStatus(check) # PyStr("PASS")
                    /\ EntryStatus(check') # PyStr("PASS"))
                => sent' = <<>>]_vars

\* C2: no id of the ignore list (consensus_key_match, validator_in_set) is a
\* key of the check state table, and no alert names such an id.
C2_IgnoredNeverSeen ==
    \A i \in {"consensus_key_match", "validator_in_set"} :
        /\ PyStr(i) \notin DOMAIN prev_statuses
        /\ \A k \in 1..Len(sent) :
                sent[k].kind \in {"status", "mlnode"} => sent[k].cid # PyStr(i)

\* C3: the values reported by the missed-requests alerts that are sent are
\* strictly increasing.
C3_SentValuesIncrease ==
    [][(pc = "loop" /\ sent' # <<>>
            /\ sent'[1].kind = "missed_requests_threshold"
            /\ last_sent_missed # None)
        => sent'[1].missed[2] > last_sent_missed[2]]_vars

\* C4: a missed_requests_threshold check whose missed percentage is absent,
\* or below the threshold (3 percent), sends no alert and leaves the tracker
\* as it was.
C4_BelowThresholdNoEffect ==
    [][(EntryEvaluated /\ EntryId(check') = PyStr("missed_requests_threshold"))
        => LET d0 == DictGet(check'[2], "details", None)
               d == IF IsDict(d0) THEN d0[2] ELSE EmptyDict
               missed == _get(d, <<"missed_requests", "missedRequests">>, None)
               total == _get(d, <<"total_requests", "totalRequests">>, None)
               known == IsInt(missed) /\ IsInt(total) /\ total # PyInt(0)
           IN  (~known \/ missed[2] * 100 < 3 * total[2])
                => /\ sent' = <<>>
                   /\ prev_missed_requests' = prev_missed_requests]_vars

\* C5: a missed_requests_threshold check whose missed percentage is at or
\* above the threshold (3 percent), evaluated while the tracker is None, sends
\* an alert and sets the tracker to the reported value.
C5_FirstExceedanceAlerts ==
    [][(EntryEvaluated /\ EntryId(check') = PyStr("missed_requests_threshold")
            /\ prev_missed_requests = None)
        => LET d0 == DictGet(check'[2], "details", None)
               d == IF IsDict(d0) THEN d0[2] ELSE EmptyDict
               missed == _get(d, <<"missed_requests", "missedRequests">>, None)
               total == _get(d, <<"total_requests", "totalRequests">>, None)
               known == IsInt(missed) /\ IsInt(total) /\ total # PyInt(0)
           IN  (known /\ missed[2] * 100 >= 3 * total[2])
                => /\ sent' # <<>>
                   /\ sent'[1].kind = "missed_requests_threshold"
                   /\ prev_missed_requests' = sent'[1].missed]_vars

\* the tuple the fetch returned in this cycle, when the participant was found
Found == result[1] = "ret" /\ result[2] # None
ObservedWeight == result[2][1]
ObservedEpoch == result[2][4]

\* C6: a weight observation whose epoch index differs from the stored epoch
\* index sends no confirmation-weight alert, whatever the weights are, and
\* leaves the observed weight and epoch stored.
C6_EpochChangeNoAlert ==
    (pc = "sleep" /\ Truthy(participant) /\ Found
        /\ PyInt(ObservedEpoch) # stored_before[2])
    => /\ sent = <<>>
       /\ prev_confirmation_weight = PyInt(ObservedWeight)
       /\ prev_cw_epoch = PyInt(ObservedEpoch)
\* after (epoch 1, weight 2) the observation (epoch 2, weight 1) sent nothing
C6_Witness ==
    /\ pc = "sleep"
    /\ stored_before = <<PyInt(2), PyInt(1)>>
    /\ Found /\ ObservedWeight = 1 /\ ObservedEpoch = 2
    /\ sent = <<>>
    /\ prev_confirmation_weight = PyInt(1)
    /\ prev_cw_epoch = PyInt(2)

\* C7: the weight sub-check sends a confirmation-weight alert exactly when
\* the participant is found, a weight is stored for the epoch index of the
\* observation and the observed weight is strictly less than the stored one;
\* no other step sends such an alert.
C7_AlertIffDecrease ==
    /\ (pc = "sleep" /\ Truthy(participant))
        => ((sent # <<>> /\ sent[1].kind = "confirmation_weight")
            <=> /\ Found
                /\ stored_before[1] # None
                /\ stored_before[2] = PyInt(ObservedEpoch)
                /\ ObservedWeight < stored_before[1][2])
    /\ \A k \in 1..Len(sent) :
            sent[k].kind = "confirmation_weight"
                => /\ pc \in {"send_weight", "sleep", "cancelled"}
                   /\ Truthy(participant)
                   /\ Len(sent) = 1
\* within epoch 1 the weight went from 2 to 1 and the alert was sent
C7_Witness ==
    /\ pc = "sleep"
    /\ stored_before = <<PyInt(2), PyInt(1)>>
    /\ Found /\ ObservedWeight = 1 /\ ObservedEpoch = 1
    /\ Len(sent) = 1
    /\ sent[1].kind = "confirmation_weight"
    /\ sent[1].prev = 2 /\ sent[1].cw = 1 /\ sent[1].pct_change = "-50.0"

\* C8: after a weight sub-check that found the participant the stored pair
\* is the observed (confirmation_weight, epoch_index), with or without an
\* alert and with or without an epoch change; while monitor() runs, at every
\* await and so at every cycle boundary, the stored weight is None exactly
\* when the stored epoch is None (an interrupt between lines 159 and 175 ends
\* monitor() with a half-written pair, which nothing reads any more).
C8_StoredIsObserved ==
    /\ (pc = "sleep" /\ Found)
        => /\ prev_confirmation_weight = PyInt(ObservedWeight)
           /\ prev_cw_epoch = PyInt(ObservedEpoch)
    /\ pc # "cancelled"
        => ((prev_confirmation_weight = None) <=> (prev_cw_epoch = None))
\* an observation that raised the weight within the epoch, no alert sent
C8_Witness ==
    /\ pc = "sleep"
    /\ stored_before = <<PyInt(1), PyInt(2)>>
    /\ Found /\ ObservedWeight = 2 /\ ObservedEpoch = 2
    /\ sent = <<>>
    /\ prev_confirmation_weight = PyInt(2)
    /\ prev_cw_epoch = PyInt(2)

\* C9: a failure of the report fetch or of the evaluation of the report is
\* handled by sending one script_error alert, the only one of the cycle; the
\* process does not stop there: the handler can always run and, unless
\* monitor() is ended from outside, is followed by the weight sub-check, which runs when a
\* participant is configured and is followed by the sleep of the same cycle.
C9_ScriptErrorOnce ==
    /\ [][/\ (pc \in {"fetch", "loop", "send_check"} /\ exc' # "") => pc' = "except"
          /\ pc = "except"
                => /\ script_errors = 0
                   /\ pc' \in {"send_error", "cancelled"}
                   /\ pc' = "send_error"
                        => /\ script_errors' = 1
                           /\ sent' = <<ScriptErrorAlert(exc)>>
                   /\ pc' = "cancelled" => (script_errors' = 0 /\ sent' = <<>>)
          /\ pc = "send_error"
                => /\ pc' \in {"weight", "cancelled"}
                   /\ script_errors = 1
                   /\ UNCHANGED <<sent, script_errors>>
          /\ pc \notin {"except", "send_error", "sleep"}
                => /\ script_errors' = script_errors
                   /\ \A k \in 1..Len(sent') : sent'[k].kind # "script_error"
          /\ pc = "weight"
                => /\ pc' \in {"send_weight", "sleep", "cancelled"}
                   /\ script_errors' = script_errors
          /\ pc = "send_weight" => pc' \in {"sleep", "cancelled"}]_vars
    /\ [](pc = "except" => ENABLED ScriptError)
    /\ [](pc = "send_error" => ENABLED SendErrorDone)
    /\ []((pc = "weight" /\ script_errors = 1) => ENABLED (SkipWeight \/ CheckWeight))
    /\ []((pc = "sleep" /\ script_errors = 1 /\ Truthy(participant))
            => result # NotRun)
\* a cycle whose evaluation failed and whose weight sub-check then ran
C9_Witness ==
    /\ pc = "sleep"
    /\ script_errors = 1
    /\ check \in MalformedChecks
    /\ Truthy(participant)
    /\ Found

\* C10: a weight sub-check that fails (request or parse error) sends nothing
\* and leaves the stored weight and epoch, the check state table and the
\* missed-requests tracker as they were; the cycle goes to its sleep, which
\* can always end and, unless the task is cancelled, is followed by the fetch
\* of the next cycle.
C10_WeightFailureSilent ==
    /\ [][(pc = "weight" /\ result'[1] = "raised")
            => /\ sent' = <<>>
               /\ UNCHANGED <<prev_confirmation_weight, prev_cw_epoch,
                              prev_statuses, prev_missed_requests, script_errors>>
               /\ pc' = "sleep"]_vars
    /\ [][(pc = "sleep" /\ result[1] = "raised") => pc' \in {"fetch", "cancelled"}]_vars
    /\ []((pc = "sleep" /\ result[1] = "raised") => ENABLED Sleep)
\* a parse error met with a weight stored and a check state recorded
C10_Witness ==
    /\ pc = "sleep"
    /\ result = Raised("ValueError")
    /\ sent = <<>>
    /\ prev_confirmation_weight = PyInt(2)
    /\ prev_statuses # EmptyDict
    /\ prev_missed_requests # None

\* C11: when the weight table of the response holds no entry with the
\* participant's address, the sub-check sends nothing and leaves the stored
\* weight and epoch as they were, whatever the epoch index of the table.
C11_AbsentIsNoOp ==
    (pc = "sleep" /\ Truthy(participant) /\ result # NotRun /\ ~table[1])
    => /\ sent = <<>>
       /\ <<prev_confirmation_weight, prev_cw_epoch>> = stored_before
\* a table of epoch 2 without the participant, met with (2, epoch 1) stored
C11_Witness ==
    /\ pc = "sleep"
    /\ result = Returned(None)
    /\ ~table[1]
    /\ table[2] \in {PyInt(2), PyStr("2")}
    /\ stored_before = <<PyInt(2), PyInt(1)>>
    /\ prev_confirmation_weight = PyInt(2)
    /\ prev_cw_epoch = PyInt(1)
    /\ sent = <<>>

\* C12: the step that evaluates a missed_requests_threshold check leaves the
\* check state table as it was, whatever the status and the details of the
\* check, and missed_requests_threshold is never a key of the table.
C12_MissedLeavesTable ==
    /\ [][((pc = "loop" \/ EntryEvaluated)
                /\ EntryId(check') = PyStr("missed_requests_threshold"))
            => prev_statuses' = prev_statuses]_vars
    /\ [](PyStr("missed_requests_threshold") \notin DOMAIN prev_statuses)
\* a missed-requests alert was sent while the table held an entry
C12_Witness ==
    /\ EntryId(check) = PyStr("missed_requests_threshold")
    /\ EntryStatus(check) = PyStr("FAIL")
    /\ Len(sent) = 1
    /\ sent[1].kind = "missed_requests_threshold"
    /\ DOMAIN prev_statuses = {PyStr("x")}

\* C13: detail fields are read through the alias list: the step that evaluates
\* a missed_requests_threshold check whose details are spelled in snake_case
\* sends the alerts and reaches the tracker that the same check with its
\* details spelled in camelCase sends and reaches.
C13_SpellingIrrelevant ==
    [][(EntryEvaluated /\ EntryId(check') = PyStr("missed_requests_threshold")
            /\ IsDict(DictGet(check'[2], "details", None))
            /\ DOMAIN check'[2].details[2] = {"missed_requests", "total_requests"})
        => LET d == check'[2].details[2]
               camel == PyDict([missedRequests |-> d.missed_requests,
                                totalRequests |-> d.total_requests])
               twin == PyDict([check'[2] EXCEPT !.details = camel])
               o == EvalCheck(prev_statuses, prev_missed_requests, twin)
           IN  /\ Len(o.sent) = Len(sent')
               /\ o.prev_missed_requests = prev_missed_requests'
               /\ o.sent # <<>> => (o.sent[1].missed = sent'[1].missed)]_vars

\* C14: until monitor() is ended from outside (cancellation or interrupt, at
\* any step) the steps of a cycle follow one another
\* in one order and none is repeated: one report fetch, then the evaluation
\* of the entries it brought (one fewer left at each, an entry that alerts
\* being finished before the next is taken), then the handler if one raised,
\* then the weight step (which fetches once, and only with a participant
\* configured), then the sleep, and only the sleep leads to the fetch of the
\* next cycle; an ended monitor() takes no step;
\* with no participant the weight state never changes and no
\* confirmation-weight alert is sent.
C14_SequentialCycle ==
    /\ [][/\ pc = "fetch" => pc' \in {"loop", "weight", "except", "cancelled"}
          /\ pc = "loop" => /\ pc' \in {"loop", "send_check", "weight", "except",
                                       "cancelled"}
                            /\ pc' # "cancelled" => remaining' = remaining - 1
                            /\ (pc' = "loop") => remaining' > 0
          /\ pc = "send_check"
                => /\ pc' \in {"loop", "weight", "cancelled"}
                   /\ check' = check
                   /\ (pc' = "loop") => (remaining' = remaining /\ remaining > 0)
          /\ pc = "except" => pc' \in {"send_error", "cancelled"}
          /\ pc = "send_error" => pc' \in {"weight", "cancelled"}
          /\ pc = "weight" => pc' \in {"send_weight", "sleep", "cancelled"}
          /\ pc = "send_weight" => pc' \in {"sleep", "cancelled"}
          /\ pc = "sleep" => pc' \in {"fetch", "cancelled"}
          /\ pc = "cancelled" => FALSE
          /\ pc \notin {"loop", "send_check"}
                => UNCHANGED <<check, prev_statuses, prev_missed_requests>>
          /\ (result' # result /\ pc' # "cancelled")
                => \/ pc = "weight" /\ result = NotRun /\ Truthy(participant)
                   \/ pc = "sleep" /\ result' = NotRun
          /\ pc \notin {"weight", "send_weight"}
                => UNCHANGED <<prev_confirmation_weight, prev_cw_epoch>>]_vars
    /\ [](~Truthy(participant)
            => /\ prev_confirmation_weight = None /\ prev_cw_epoch = None
               /\ result = NotRun
               /\ \A k \in 1..Len(sent) : sent[k].kind # "confirmation_weight")
\* a cycle whose fetch failed stands at its sleep: nothing was retried and,
\* with no participant, no weight was fetched
C14_Witness ==
    /\ pc = "sleep"
    /\ ~Truthy(participant)
    /\ script_errors = 1
    /\ remaining = 0
    /\ result = NotRun
    /\ prev_statuses # EmptyDict

\* C15: a notification whose delivery fails changes nothing else.  The step
\* after the call writes the trackers, and goes on, as the code does for a
\* delivered one (an interrupt that ends monitor() before those writes
\* leaves the trackers as they were, as it does after a delivered one); no
\* exception reaches the try blocks, so no script_error alert follows from
\* it; and while the condition persists, in this cycle or a later one, the
\* alert is not sent again: an entry with an id whose alert was not
\* delivered sends nothing when it is the next entry evaluated in a later
\* cycle, and neither does the stored weight observed again.
C15_FailedDeliverySwallowed ==
    [][/\ (pc = "send_check" /\ delivery' = "failed")
            => LET o == EvalCheck(prev_statuses, prev_missed_requests, check)
               IN  /\ pc' \in {"loop", "weight", "cancelled"}
                   /\ pc' # "cancelled"
                        => /\ prev_statuses' = o.prev_statuses
                           /\ prev_missed_requests' = o.prev_missed_requests
                   /\ pc' = "cancelled"
                        => UNCHANGED <<prev_statuses, prev_missed_requests>>
                   /\ exc' = ""
                   /\ script_errors' = script_errors
                   /\ UNCHANGED <<check, sent, prev_confirmation_weight,
                                  prev_cw_epoch>>
       /\ (pc = "send_error" /\ delivery' = "failed")
            => /\ pc' \in {"weight", "cancelled"}
               /\ script_errors' = 1
               /\ sent[1].kind = "script_error"
               /\ UNCHANGED <<sent, script_errors, prev_statuses,
                              prev_missed_requests, prev_confirmation_weight,
                              prev_cw_epoch>>
       /\ (pc = "send_weight" /\ delivery' = "failed")
            => /\ pc' \in {"sleep", "cancelled"}
               /\ result[1] = "ret"
               /\ prev_confirmation_weight' = PyInt(result[2][1])
                    \/ (pc' = "cancelled" /\ UNCHANGED prev_confirmation_weight)
               /\ prev_cw_epoch' = PyInt(result[2][4])
                    \/ (pc' = "cancelled" /\ UNCHANGED prev_cw_epoch)
               /\ pc' = "sleep" => UNCHANGED result
               /\ script_errors' = script_errors
               /\ sent[1].kind = "confirmation_weight"
               /\ UNCHANGED <<sent, prev_statuses, prev_missed_requests>>
       /\ (pc = "loop" /\ pc' # "cancelled" /\ undelivered = "earlier_cycle"
                /\ check' = check
                /\ EntryId(check) # None)
            => sent' = <<>>
       /\ (pc = "weight" /\ pc' # "cancelled" /\ weight_undelivered
                /\ result'[1] = "ret" /\ result'[2] # None
                /\ PyInt(result'[2][1]) = prev_confirmation_weight
                /\ PyInt(result'[2][4]) = prev_cw_epoch)
            => sent' = <<>>]_vars

\* C16: the confirmation-weight alert is computed without dividing by zero:
\* with a stored weight of 0 the change it prints is +0.0, with a total
\* weight of 0 the share it prints is 0.0, and in both cases the alert is
\* sent and the observed weight and epoch are stored.
C16_ZeroDivisorGuards ==
    /\ (pc = "sleep" /\ Found /\ stored_before[1] = PyInt(0)
            /\ stored_before[2] = PyInt(ObservedEpoch) /\ ObservedWeight < 0)
        => /\ Len(sent) = 1
           /\ sent[1].kind = "confirmation_weight"
           /\ sent[1].pct_change = "+0.0"
    /\ \A k \in 1..Len(sent) :
            sent[k].kind = "confirmation_weight"
                => /\ sent[k].prev = 0 => sent[k].pct_change = "+0.0"
                   /\ sent[k].total_w = 0 => sent[k].share = "0.0"
                   /\ pc = "sleep"
                        => /\ prev_confirmation_weight = PyInt(sent[k].cw)
                           /\ prev_cw_epoch = PyInt(ObservedEpoch)
\* stored weight 0, observed weight -1, total weight 0
C16_Witness ==
    /\ pc = "sleep"
    /\ stored_before[1] = PyInt(0)
    /\ Len(sent) = 1
    /\ sent[1].kind = "confirmation_weight"
    /\ sent[1].prev = 0 /\ sent[1].cw = -1 /\ sent[1].pct_change = "+0.0"
    /\ sent[1].total_w = 0 /\ sent[1].share = "0.0"
    /\ prev_confirmation_weight = PyInt(-1)

\* C17: after the step that evaluates a check whose id is neither on the
\* ignore list nor missed_requests_threshold, the check state table maps the
\* id to the status the check carried, and no key of the table is removed.
C17_TableHoldsObservation ==
    [][(EntryEvaluated /\ exc' = "" /\ IsStr(EntryId(check'))
            /\ EntryId(check')[2] \notin {"consensus_key_match", "validator_in_set",
                                          "missed_requests_threshold"})
        => /\ DictGet(prev_statuses', EntryId(check'), None) = EntryStatus(check')
           /\ DOMAIN prev_statuses \subseteq DOMAIN prev_statuses']_vars

\* C18: when the evaluation of an entry raises, that step writes nothing and
\* sends nothing, so what the earlier entries of the report wrote stays; the
\* handler sends one script_error alert and leaves the trackers alone; no
\* further entry of the report is evaluated before the next fetch; the
\* weight state is modified by neither step.
C18_NoRollbackOnError ==
    [][/\ (pc = "loop" /\ exc' # "")
            => /\ UNCHANGED <<prev_statuses, prev_missed_requests,
                              prev_confirmation_weight, prev_cw_epoch>>
               /\ sent' = <<>>
               /\ pc' = "except"
       /\ pc = "except"
            => /\ UNCHANGED <<prev_statuses, prev_missed_requests,
                              prev_confirmation_weight, prev_cw_epoch, check>>
               /\ pc' = "send_error"
                    => /\ sent' = <<ScriptErrorAlert(exc)>>
                       /\ script_errors' = script_errors + 1
               /\ script_errors = 0
               /\ pc' \in {"send_error", "cancelled"}
       /\ pc = "send_error"
            => /\ UNCHANGED <<prev_statuses, prev_missed_requests,
                              prev_confirmation_weight, prev_cw_epoch, check>>
               /\ pc' \in {"weight", "cancelled"}
       /\ pc \in {"weight", "send_weight", "sleep"}
            => UNCHANGED <<prev_statuses, prev_missed_requests, check>>]_vars
\* the second entry of a report was malformed: the FAIL recorded for x by
\* the first entry is still there after the handler
C18_Witness ==
    /\ pc = "weight"
    /\ script_errors = 1
    /\ check \in MalformedChecks
    /\ sent = <<ScriptErrorAlert("AttributeError")>>
    /\ DictGet(prev_statuses, PyStr("x"), None) = PyStr("FAIL")
    /\ prev_confirmation_weight = None

\* C19: for a missed_requests_threshold check whose details is a mapping, an
\* alert is sent exactly when details.missed_requests is an integer, the
\* tracker holds an integer, and the count is greater than the tracker; the
\* tracker becomes the count whenever the count is an integer (a lower count
\* included) and is left alone otherwise.
C19_RawCountDelta ==
    [][(EntryEvaluated /\ EntryId(check') = PyStr("missed_requests_threshold")
            /\ exc' = "")
        => LET d0 == DictGet(check'[2], "details", PyDict(EmptyDict))
               details == IF Truthy(d0) THEN d0 ELSE PyDict(EmptyDict)
               missed == DictGet(details[2], "missed_requests", None)
           IN  /\ sent' # <<>>
                    <=> /\ IsInt(missed)
                        /\ prev_missed_requests # None
                        /\ missed[2] > prev_missed_requests[2]
               /\ sent' # <<>>
                    => /\ Len(sent') = 1
                       /\ sent'[1].kind = "missed_requests_threshold"
                       /\ sent'[1].prev = prev_missed_requests
                       /\ sent'[1].missed = missed
               /\ prev_missed_requests' =
                    IF IsInt(missed) THEN missed ELSE prev_missed_requests]_vars
\* the count rose from 1 to 2
C19_Witness ==
    /\ EntryId(check) = PyStr("missed_requests_threshold")
    /\ Len(sent) = 1
    /\ sent[1].kind = "missed_requests_threshold"
    /\ sent[1].prev = PyInt(1)
    /\ sent[1].missed = PyInt(2)
    /\ prev_missed_requests = PyInt(2)

\* C20: the check state table changes at a step only when the check carries
\* both an id and a status, and then only at that id; a check with an id and
\* no status sends an alert exactly when the status recorded for the id is
\* absent or PASS, and leaves the table as it was.
C20_WrittenOnlyWithStatus ==
    [][/\ prev_statuses' # prev_statuses
            => /\ EntryEvaluated
               /\ EntryId(check') # None
               /\ EntryStatus(check') # None
               /\ prev_statuses'[EntryId(check')] = EntryStatus(check')
               /\ \A k \in DOMAIN prev_statuses :
                    k # EntryId(check') => prev_statuses'[k] = prev_statuses[k]
       /\ (EntryEvaluated /\ IsStr(EntryId(check')) /\ EntryStatus(check') = None
                /\ EntryId(check')[2] \notin {"consensus_key_match",
                                              "missed_requests_threshold"})
            => /\ sent' # <<>>
                    <=> DictGet(prev_statuses, EntryId(check'), None)
                            \in {None, PyStr("PASS")}
               /\ prev_statuses' = prev_statuses]_vars
\* x is recorded PASS and a check for x with no status has just alerted
C20_Witness ==
    /\ check \in NoStatusChecks
    /\ Len(sent) = 1
    /\ sent[1].kind = "status"
    /\ sent[1].status = None
    /\ PyStr("x") \in DOMAIN prev_statuses
    /\ prev_statuses[PyStr("x")] = PyStr("PASS")

====
